---------------------------- MODULE Spec2Model ----------------------------
(* A model of bot.py: the Telegram bot that registers private-chat users   *)
(* (start), lets them toggle services (services, button), stores keyword-  *)
(* matching group messages (collect_data) and notifies the active users    *)
(* (notify_users).  Every handler is cut at its await points: one action   *)
(* is the code between two awaits, so that handlers can be run one after   *)
(* another (Spec) or interleaved (SpecConc).                               *)
EXTENDS Integers, Sequences, FiniteSets, TLC

(***************************************************************************)
(* Bounds of the model and the inputs the handlers are driven with.        *)
(***************************************************************************)
MaxCalls == 4
MaxTicks == 2

SecondsPerDay == 86400
TrialDays == 3

\* The clock reading when the bot starts: 10:00:00 of day 0.
StartTimes == {36000}
\* How far the clock may move between two steps: 1 s, and 2 days 23 hours.
Deltas == {1, 255600}

UserIds == {1, 2}
Profiles == {"ann"}
MessageIds == {42}
ChatNames == {"myhome"}
\* The chats of the specification in which messages come from two chats.
TwoChats == {"myhome", "flats"}
Tasks == {"t1", "t2"}
MainTask == "t1"

\* service_state's keys (two of the 21 services of the table).
Services == {"Renters Real Estate", "Cleaning"}

(***************************************************************************)
(* Text.  A text is a sequence of characters; None is <<>> too, since the  *)
(* code tests only `not text`.                                             *)
(***************************************************************************)
\* str.lower(), on the characters the model uses.
LowerChar(c) ==
    CASE c = "R" -> "r"
      [] c = "E" -> "e"
      [] c = "N" -> "n"
      [] c = "T" -> "t"
      [] c = "S" -> "s"
      [] c = "F" -> "f"
      [] c = "O" -> "o"
      [] c = "I" -> "i"
      [] c = "M" -> "m"
      [] c = "U" -> "u"
      [] OTHER -> c

Lower(s) == [i \in 1..Len(s) |-> LowerChar(s[i])]

\* str.upper(), on the same characters.
UpperChar(c) ==
    CASE c = "r" -> "R"
      [] c = "e" -> "E"
      [] c = "n" -> "N"
      [] c = "t" -> "T"
      [] c = "s" -> "S"
      [] c = "f" -> "F"
      [] c = "o" -> "O"
      [] c = "i" -> "I"
      [] c = "m" -> "M"
      [] c = "u" -> "U"
      [] OTHER -> c

Upper(s) == [i \in 1..Len(s) |-> UpperChar(s[i])]

\* `k in s` for strings.
Contains(s, k) ==
    \E i \in 0..(Len(s) - Len(k)) : \A j \in 1..Len(k) : s[i + j] = k[j]

\* service_keywords, for the modelled services: "rent", "for rent" and
\* "cleaning service" stand for the lists.
service_keywords ==
    [s \in Services |->
        IF s = "Renters Real Estate"
        THEN {<<"r", "e", "n", "t">>, <<"f", "o", "r", " ", "r", "e", "n", "t">>}
        ELSE {<<"c", "l", "e", "a", "n", "i", "n", "g", " ",
                "s", "e", "r", "v", "i", "c", "e">>}]

\* The keywords list of collect_data: "rent", "for rent", and "Сниму",
\* written Snimu here, the one entry that is not lower case.
keywords ==
    {<<"r", "e", "n", "t">>, <<"f", "o", "r", " ", "r", "e", "n", "t">>,
     <<"S", "n", "i", "m", "u">>}

\* Mutant of MatchesKeywords: the test is made without its `not`, so that
\* the texts without a keyword are the ones kept.
MatchesKeywordsInverted(text) == ~\E k \in keywords : Contains(Lower(text), k)

\* any(keyword in text_lower for keyword in keywords)
MatchesKeywords(text) == \E k \in keywords : Contains(Lower(text), k)

\* The services whose keyword list matches the text (4.1 classify).
MatchedServices(text) ==
    {s \in Services : \E k \in service_keywords[s] : Contains(Lower(text), k)}

Texts == {<<"r", "e", "n", "t">>, <<"h", "i">>, <<>>}

\* A keyword written in every mix of upper and lower case.
CaseVariants(k) ==
    {[i \in 1..Len(k) |-> IF i \in up THEN UpperChar(k[i]) ELSE LowerChar(k[i])] :
        up \in SUBSET (1..Len(k))}

\* The texts the keyword test is tried on: every keyword of the list in
\* every mix of case, a text without a keyword, and no text.
CaseTexts == UNION {CaseVariants(k) : k \in keywords} \cup {<<"h", "i">>, <<>>}

(***************************************************************************)
(* Dates.  A clock reading is a number of seconds; a stored                *)
(* trial_end_date string is <<day>> when written with "%Y-%m-%d" and       *)
(* <<day, second of day>> when written with "%Y-%m-%d %H:%M:%S".           *)
(***************************************************************************)
timedelta(days) == days * SecondsPerDay

FormatDate(t) == <<t \div SecondsPerDay>>

FormatDateTime(t) == <<t \div SecondsPerDay, t % SecondsPerDay>>

\* datetime.replace(hour=23, minute=59, second=59)
ReplaceEndOfDay(t) == (t \div SecondsPerDay) * SecondsPerDay + 23 * 3600 + 59 * 60 + 59

\* notify_users: strptime with "%Y-%m-%d %H:%M:%S", on ValueError with "%Y-%m-%d".
ParseTrialEnd(s) ==
    IF Len(s) = 2 THEN s[1] * SecondsPerDay + s[2] ELSE s[1] * SecondsPerDay

\* start's trial_end_date.
StartTrialEnd(t) == FormatDate(t + timedelta(TrialDays))

\* button's trial_end_date, from the length of the list after the append.
ButtonTrialEnd(t, n) ==
    IF n = 1 THEN FormatDate(t + timedelta(TrialDays))
    ELSE FormatDateTime(ReplaceEndOfDay(t))

\* datetime.utcnow() >= trial_end_date
Expired(t, s) == t >= ParseTrialEnd(s)

(***************************************************************************)
(* The collections.                                                        *)
(***************************************************************************)
VARIABLES
    now,                  \* datetime.utcnow()
    user_collection,      \* db.users: the documents, in insertion order
    notification_collection, \* db.notifications: the documents, in insertion order
    collection,           \* db.collected_data: the documents, in insertion order
    service_state,        \* the module's service_state table
    offered,              \* callback_data of the buttons shown so far
    pc,                   \* where each handler invocation stands
    frame,                \* its local variables
    calls,                \* start, button and collect_data invocations so far
    ticks,                \* clock moves so far
    sends,                \* history: send_message calls per <<user_id, message_id>>
    faults,               \* history: <<"send" or "record", user_id, message_id>> of each call that
                          \* raised, and <<"store", 0, message_id>> for a raised collection.insert_one
    created,              \* history: user_id -> the utcnow() of the start that inserted it first
    pressed,              \* history: user_ids whose button press reached the update
    fresh,                \* history: user_id -> on presses that wrote now + 3 days
    flips,                \* history: user_id -> status: False updates applied
    runs                  \* history: message_id -> notify_users runs completed

vars == <<now, user_collection, notification_collection, collection,
          service_state, offered, pc, frame, calls, ticks,
          sends, faults, created, pressed, fresh, flips, runs>>

store == <<user_collection, notification_collection, collection>>
history == <<sends, faults, created, pressed, fresh, flips, runs>>

NoFrame == [op |-> "none"]

\* find_one({"user_id": uid}): the index of the first match, 0 for None.
FindUser(coll, uid) ==
    IF \E i \in 1..Len(coll) : coll[i].user_id = uid
    THEN CHOOSE i \in 1..Len(coll) :
            /\ coll[i].user_id = uid
            /\ \A j \in 1..(i - 1) : coll[j].user_id # uid
    ELSE 0

\* find({"status": True}): the matching documents, in order.
ActiveUsers(coll) == SelectSeq(coll, LAMBDA d : d.status = TRUE)

\* Mutant of HasNotification: the two values of the query are swapped.
HasNotificationSwapped(coll, uid, mid) ==
    \E i \in 1..Len(coll) : coll[i].user_id = mid /\ coll[i].message_id = uid

\* notification_collection.find_one({"user_id": uid, "message_id": mid}) is not None
HasNotification(coll, uid, mid) ==
    \E i \in 1..Len(coll) : coll[i].user_id = uid /\ coll[i].message_id = mid

CountNotifications(coll, uid, mid) ==
    Cardinality({i \in 1..Len(coll) : coll[i].user_id = uid /\ coll[i].message_id = mid})

\* generate_service_keyboard: the callback_data of each button.
KeyboardData(state) ==
    {<<s, IF state[s] THEN "off" ELSE "on">> : s \in Services}

\* The keyboard a user is shown: generate_service_keyboard reads the
\* module's table, whoever asks.
KeyboardFor(uid, state) == KeyboardData(state)

Init ==
    /\ now \in StartTimes
    /\ user_collection = <<>>
    /\ notification_collection = <<>>
    /\ collection = <<>>
    /\ service_state = [s \in Services |-> FALSE]
    /\ offered = {}
    /\ pc = [t \in Tasks |-> "idle"]
    /\ frame = [t \in Tasks |-> NoFrame]
    /\ calls = 0
    /\ ticks = 0
    /\ sends = [p \in UserIds \X MessageIds |-> 0]
    /\ faults = {}
    /\ created = [u \in UserIds |-> -1]
    /\ pressed = {}
    /\ fresh = [u \in UserIds |-> 0]
    /\ flips = [u \in UserIds |-> 0]
    /\ runs = [m \in MessageIds |-> 0]

\* The clock moves on.
Tick ==
    /\ ticks < MaxTicks
    /\ \E d \in Deltas : now' = now + d
    /\ ticks' = ticks + 1
    /\ UNCHANGED <<store, service_state, offered, pc, frame, calls, history>>

Return(t) ==
    /\ pc' = [pc EXCEPT ![t] = "idle"]
    /\ frame' = [frame EXCEPT ![t] = NoFrame]

Goto(t, label, f) ==
    /\ pc' = [pc EXCEPT ![t] = label]
    /\ frame' = [frame EXCEPT ![t] = f]

(***************************************************************************)
(* start, in a private chat (in any other chat the handler does nothing).  *)
(***************************************************************************)
\* The document start inserts.
NewUser(uid, profile, trial_end_date) ==
    [username |-> profile, first_name |-> profile, last_name |-> profile,
     user_id |-> uid, status |-> TRUE, trial_end_date |-> trial_end_date,
     services |-> <<>>]

Start(t) ==
    /\ pc[t] = "idle"
    /\ calls < MaxCalls
    /\ calls' = calls + 1
    /\ \E uid \in UserIds, p \in Profiles :
          Goto(t, "start_find", [op |-> "start", user_id |-> uid, profile |-> p])
    /\ UNCHANGED <<now, store, service_state, offered, ticks, history>>

\* find_one returns; a user that is found is only greeted.
StartFind(t) ==
    /\ pc[t] = "start_find"
    /\ IF FindUser(user_collection, frame[t].user_id) = 0
       THEN Goto(t, "start_insert",
                 frame[t] @@ [utcnow |-> now, trial_end_date |-> StartTrialEnd(now)])
       ELSE Return(t)
    /\ UNCHANGED <<now, store, service_state, offered, calls, ticks, history>>

StartInsert(t) ==
    /\ pc[t] = "start_insert"
    /\ user_collection' =
          Append(user_collection,
                 NewUser(frame[t].user_id, frame[t].profile, frame[t].trial_end_date))
    /\ created' = [created EXCEPT ![frame[t].user_id] =
                      IF @ = -1 THEN frame[t].utcnow ELSE @]
    /\ Return(t)
    /\ UNCHANGED <<now, notification_collection, collection, service_state,
                   offered, calls, ticks, sends, faults, pressed, fresh, flips, runs>>

(***************************************************************************)
(* services: the keyboard is generated and shown.                          *)
(***************************************************************************)
ServicesCmd ==
    /\ offered' = offered \cup KeyboardData(service_state)
    /\ UNCHANGED <<now, store, service_state, pc, frame, calls, ticks, history>>

(***************************************************************************)
(* button: a press of a button that some keyboard has shown.               *)
(***************************************************************************)
\* selected_services.remove(service_name): the first occurrence goes.
RemoveFirst(s, x) ==
    IF \E i \in 1..Len(s) : s[i] = x
    THEN LET i == CHOOSE i \in 1..Len(s) :
                     s[i] = x /\ \A j \in 1..(i - 1) : s[j] # x
         IN  SubSeq(s, 1, i - 1) \o SubSeq(s, i + 1, Len(s))
    ELSE s

\* Mutant of SetOn: enabling a service also reactivates the user.
SetOnReactivates(doc, selected_services, trial_end_date) ==
    [doc EXCEPT !.services = selected_services,
                !.trial_end_date = trial_end_date, !.status = TRUE]

\* update_one({"user_id": uid}, {"$set": {"services": .., "trial_end_date": ..}})
SetOn(doc, selected_services, trial_end_date) ==
    [doc EXCEPT !.services = selected_services, !.trial_end_date = trial_end_date]

\* Mutant of SetOff: the off branch writes a trial_end_date as the on branch does.
SetOffWithTrialEnd(doc, selected_services) ==
    [doc EXCEPT !.services = selected_services,
                !.trial_end_date = ButtonTrialEnd(now, Len(selected_services))]

\* update_one({"user_id": uid}, {"$set": {"services": ..}})
SetOff(doc, selected_services) ==
    [doc EXCEPT !.services = selected_services]

\* update_one({"user_id": uid}, {"$set": {"status": False}})
SetInactive(doc) == [doc EXCEPT !.status = FALSE]

Button(t) ==
    /\ pc[t] = "idle"
    /\ calls < MaxCalls
    /\ calls' = calls + 1
    /\ \E uid \in UserIds, data \in offered :
          Goto(t, "button_find",
               [op |-> "button", user_id |-> uid,
                service_name |-> data[1], status |-> data[2]])
    /\ UNCHANGED <<now, store, service_state, offered, ticks, history>>

\* find_one returns: service_state is set, and user_data.get raises for a
\* user that is not registered, which ends the handler.
ButtonFind(t) ==
    /\ pc[t] = "button_find"
    /\ service_state' = [service_state EXCEPT
                            ![frame[t].service_name] = (frame[t].status = "on")]
    /\ LET i == FindUser(user_collection, frame[t].user_id)
           selected_services ==
               IF frame[t].status = "on"
               THEN Append(user_collection[i].services, frame[t].service_name)
               ELSE RemoveFirst(user_collection[i].services, frame[t].service_name)
       IN  IF i = 0
           THEN Return(t)
           ELSE Goto(t, "button_update",
                     frame[t] @@
                     [utcnow |-> now, selected_services |-> selected_services,
                      trial_end_date |-> ButtonTrialEnd(now, Len(selected_services))])
    /\ UNCHANGED <<now, store, offered, calls, ticks, history>>

ButtonUpdate(t) ==
    /\ pc[t] = "button_update"
    /\ LET i == FindUser(user_collection, frame[t].user_id)
       IN  user_collection' =
              IF i = 0 THEN user_collection
              ELSE [user_collection EXCEPT ![i] =
                      IF frame[t].status = "on"
                      THEN SetOn(@, frame[t].selected_services, frame[t].trial_end_date)
                      ELSE SetOff(@, frame[t].selected_services)]
    /\ pressed' = pressed \cup {frame[t].user_id}
    /\ fresh' = IF frame[t].status = "on" /\ Len(frame[t].selected_services) = 1
                THEN [fresh EXCEPT ![frame[t].user_id] = @ + 1]
                ELSE fresh
    /\ Goto(t, "button_edit", frame[t])
    /\ UNCHANGED <<now, notification_collection, collection, service_state,
                   offered, calls, ticks, sends, faults, created, flips, runs>>

\* query.answer(), then edit_message_text with a fresh keyboard.
ButtonEdit(t) ==
    /\ pc[t] = "button_edit"
    /\ offered' = offered \cup KeyboardData(service_state)
    /\ Return(t)
    /\ UNCHANGED <<now, store, service_state, calls, ticks, history>>

(***************************************************************************)
(* collect_data and the notify_users run it starts.                        *)
(***************************************************************************)
\* The collected_data document (user_link is None throughout).
CollectedData(text, chat_name, message_id) ==
    [user_link |-> "None", text |-> text,
     message_link |-> <<"https://t.me", chat_name, message_id>>,
     chat_name |-> chat_name, message_id |-> message_id]

\* A message arrives from one of the chats: without text, or without a
\* keyword, the handler returns.
CollectDataFrom(t, chats) ==
    /\ pc[t] = "idle"
    /\ calls < MaxCalls
    /\ calls' = calls + 1
    /\ \E text \in Texts, chat_name \in chats, message_id \in MessageIds :
          IF text = <<>> \/ ~MatchesKeywords(text)
          THEN UNCHANGED <<pc, frame>>
          ELSE Goto(t, "collect_insert",
                    [op |-> "collect_data",
                     data |-> CollectedData(text, chat_name, message_id)])
    /\ UNCHANGED <<now, store, service_state, offered, ticks, history>>

CollectData(t) == CollectDataFrom(t, ChatNames)

CollectDataTwoChats(t) == CollectDataFrom(t, TwoChats)

\* Mutant of CollectInsert: the insert is not inside the try, and
\* notify_users runs whether it raised or not.
CollectInsertNotifiesAnyway(t) ==
    /\ pc[t] = "collect_insert"
    /\ \/ /\ collection' = Append(collection, frame[t].data)
          /\ UNCHANGED faults
       \/ /\ faults' = faults \cup {<<"store", 0, frame[t].data.message_id>>}
          /\ UNCHANGED collection
    /\ Goto(t, "notify_find", frame[t])
    /\ UNCHANGED <<now, user_collection, notification_collection, service_state,
                   offered, calls, ticks, sends, created, pressed, fresh, flips, runs>>

\* collection.insert_one returns, or raises into the handler's except.
CollectInsert(t) ==
    /\ pc[t] = "collect_insert"
    /\ \/ /\ collection' = Append(collection, frame[t].data)
          /\ Goto(t, "notify_find", frame[t])
          /\ UNCHANGED faults
       \/ /\ faults' = faults \cup {<<"store", 0, frame[t].data.message_id>>}
          /\ Return(t)
          /\ UNCHANGED collection
    /\ UNCHANGED <<now, user_collection, notification_collection, service_state,
                   offered, calls, ticks, sends, created, pressed, fresh, flips, runs>>

\* The loop of notify_users between two awaits: the next document of the
\* cursor is taken and its trial_end_date compared with utcnow(); the run
\* ends when the cursor is exhausted.
NextUser(t, f) ==
    IF f.i > Len(f.cursor)
    THEN /\ Return(t)
         /\ runs' = [runs EXCEPT ![f.data.message_id] = @ + 1]
    ELSE /\ runs' = runs
         /\ IF Expired(now, f.cursor[f.i].trial_end_date)
            THEN Goto(t, "notify_expire", [f EXCEPT !.utcnow = now])
            ELSE Goto(t, "notify_dedup", [f EXCEPT !.utcnow = now])

\* user_collection.find({"status": True}) delivers its documents.
NotifyFind(t) ==
    /\ pc[t] = "notify_find"
    /\ NextUser(t, [op |-> "notify_users", data |-> frame[t].data,
                    cursor |-> ActiveUsers(user_collection), i |-> 1,
                    utcnow |-> now, attempted |-> {}, failed |-> {}])
    /\ UNCHANGED <<now, store, service_state, offered, calls, ticks,
                   sends, faults, created, pressed, fresh, flips>>

\* Mutant of NotifyExpire: after the update the run ends (return in place
\* of continue).
NotifyExpireReturns(t) ==
    /\ pc[t] = "notify_expire"
    /\ LET uid == frame[t].cursor[frame[t].i].user_id
           k == FindUser(user_collection, uid)
       IN  /\ user_collection' = [user_collection EXCEPT ![k] = SetInactive(@)]
           /\ flips' = [flips EXCEPT ![uid] = @ + 1]
    /\ Return(t)
    /\ runs' = [runs EXCEPT ![frame[t].data.message_id] = @ + 1]
    /\ UNCHANGED <<now, notification_collection, collection, service_state,
                   offered, calls, ticks, sends, faults, created, pressed, fresh>>

\* The trial has ended: status becomes False, and the loop continues.
NotifyExpire(t) ==
    /\ pc[t] = "notify_expire"
    /\ LET uid == frame[t].cursor[frame[t].i].user_id
           k == FindUser(user_collection, uid)
       IN  /\ user_collection' = [user_collection EXCEPT ![k] = SetInactive(@)]
           /\ flips' = [flips EXCEPT ![uid] = @ + 1]
    /\ NextUser(t, [frame[t] EXCEPT !.i = @ + 1])
    /\ UNCHANGED <<now, notification_collection, collection, service_state,
                   offered, calls, ticks, sends, faults, created, pressed, fresh>>

\* notification_collection.find_one returns: a user already notified is skipped.
NotifyDedup(t) ==
    /\ pc[t] = "notify_dedup"
    /\ IF HasNotification(notification_collection,
                          frame[t].cursor[frame[t].i].user_id,
                          frame[t].data.message_id)
       THEN NextUser(t, [frame[t] EXCEPT !.i = @ + 1])
       ELSE Goto(t, "notify_send", frame[t]) /\ runs' = runs
    /\ UNCHANGED <<now, store, service_state, offered, calls, ticks,
                   sends, faults, created, pressed, fresh, flips>>

\* Mutant of OnSendError: the error leaves the loop (it is caught only by
\* collect_data), so the run ends.
OnSendErrorPropagates(t, f) == Return(t) /\ runs' = runs

\* What the except clause of the loop does with a raised send or insert.
OnSendError(t, f) == NextUser(t, [f EXCEPT !.i = @ + 1])

\* context.bot.send_message returns, or raises into the loop's except.
NotifySend(t) ==
    /\ pc[t] = "notify_send"
    /\ LET uid == frame[t].cursor[frame[t].i].user_id
           mid == frame[t].data.message_id
           f == [frame[t] EXCEPT !.attempted = @ \cup {uid}]
       IN  /\ sends' = [sends EXCEPT ![<<uid, mid>>] = @ + 1]
           /\ \/ /\ Goto(t, "notify_record", f)
                 /\ UNCHANGED <<faults, runs>>
              \/ /\ faults' = faults \cup {<<"send", uid, mid>>}
                 /\ OnSendError(t, [f EXCEPT !.failed = @ \cup {uid}])
    /\ UNCHANGED <<now, store, service_state, offered, calls, ticks,
                   created, pressed, fresh, flips>>

\* notification_collection.insert_one returns, or raises into the same except.
NotifyRecord(t) ==
    /\ pc[t] = "notify_record"
    /\ LET uid == frame[t].cursor[frame[t].i].user_id
           mid == frame[t].data.message_id
       IN  \/ /\ notification_collection' =
                    Append(notification_collection,
                           [user_id |-> uid, message_id |-> mid])
              /\ NextUser(t, [frame[t] EXCEPT !.i = @ + 1])
              /\ UNCHANGED faults
           \/ /\ faults' = faults \cup {<<"record", uid, mid>>}
              /\ OnSendError(t, frame[t])
              /\ UNCHANGED notification_collection
    /\ UNCHANGED <<now, user_collection, collection, service_state, offered,
                   calls, ticks, sends, created, pressed, fresh, flips>>

(***************************************************************************)
(* The specifications.                                                     *)
(***************************************************************************)
Handler(t) ==
    \/ Start(t) \/ StartFind(t) \/ StartInsert(t)
    \/ Button(t) \/ ButtonFind(t) \/ ButtonUpdate(t) \/ ButtonEdit(t)
    \/ CollectData(t) \/ CollectInsert(t)
    \/ NotifyFind(t) \/ NotifyExpire(t) \/ NotifyDedup(t)
    \/ NotifySend(t) \/ NotifyRecord(t)

\* The updates are handled one at a time (the Application's default).
Next == Tick \/ (pc[MainTask] = "idle" /\ ServicesCmd) \/ Handler(MainTask)

Spec == Init /\ [][Next]_vars

\* The handlers of several updates interleave at their awaits.
NextConc == Tick \/ ServicesCmd \/ \E t \in Tasks : Handler(t)

SpecConc == Init /\ [][NextConc]_vars

\* The updates are handled one at a time, and the messages come from two chats.
HandlerTwoChats(t) ==
    \/ Start(t) \/ StartFind(t) \/ StartInsert(t)
    \/ Button(t) \/ ButtonFind(t) \/ ButtonUpdate(t) \/ ButtonEdit(t)
    \/ CollectDataTwoChats(t) \/ CollectInsert(t)
    \/ NotifyFind(t) \/ NotifyExpire(t) \/ NotifyDedup(t)
    \/ NotifySend(t) \/ NotifyRecord(t)

NextTwoChats ==
    Tick \/ (pc[MainTask] = "idle" /\ ServicesCmd) \/ HandlerTwoChats(MainTask)

SpecTwoChats == Init /\ [][NextTwoChats]_vars

\* The updates are handled one at a time, no call raises, and a notify_users
\* run that can take its next step takes it (the event loop resumes every
\* coroutine whose await has completed).
NotifyStep(t) ==
    /\ \/ NotifyFind(t) \/ NotifyExpire(t) \/ NotifyDedup(t)
       \/ NotifySend(t) \/ NotifyRecord(t)
    /\ faults' = faults

HandlerLive(t) ==
    \/ Start(t) \/ StartFind(t) \/ StartInsert(t)
    \/ Button(t) \/ ButtonFind(t) \/ ButtonUpdate(t) \/ ButtonEdit(t)
    \/ CollectData(t) \/ (CollectInsert(t) /\ faults' = faults)
    \/ NotifyStep(t)

NextLive ==
    Tick \/ (pc[MainTask] = "idle" /\ ServicesCmd) \/ HandlerLive(MainTask)

SpecLive == Init /\ [][NextLive]_vars /\ WF_vars(NotifyStep(MainTask))

(***************************************************************************)
(* The keyword test of collect_data on its own: a text is classified, the  *)
(* result is looked at, and the next text is taken.                        *)
(***************************************************************************)
\* collect_data goes on to build its document: the text is not empty and has
\* a keyword.
Kept(text) == text # <<>> /\ MatchesKeywords(text)

ClassifyText(t) ==
    /\ pc[t] = "idle"
    /\ \E text \in CaseTexts :
          Goto(t, "classified",
               [op |-> "classify", text |-> text,
                kept |-> Kept(text), kept_upper |-> Kept(Upper(text))])
    /\ UNCHANGED <<now, store, service_state, offered, calls, ticks, history>>

ClassifyDone(t) ==
    /\ pc[t] = "classified"
    /\ Return(t)
    /\ UNCHANGED <<now, store, service_state, offered, calls, ticks, history>>

NextMatch == ClassifyText(MainTask) \/ ClassifyDone(MainTask)

SpecMatch == Init /\ [][NextMatch]_vars

(***************************************************************************)
(* The claims.                                                             *)
(***************************************************************************)
Registered(uid) == FindUser(user_collection, uid) # 0

UserDoc(uid) == user_collection[FindUser(user_collection, uid)]

NoFaultIn(fs, uid, mid) == <<"send", uid, mid>> \notin fs /\ <<"record", uid, mid>> \notin fs

NoFault(uid, mid) == NoFaultIn(faults, uid, mid)

AllIdle == \A t \in Tasks : pc[t] = "idle"

\* C1: when notify_users runs are made one after another for the same
\* message_id and no send or insert raises, send_message is called at most
\* once per (user, message), between runs the notifications collection holds
\* as many records of the pair as calls were made, and a run that ends
\* leaves exactly one record for every user of its cursor whose trial has
\* not ended.
C1_AtMostOnceSequential ==
    [][/\ \A u \in UserIds, m \in MessageIds :
            NoFaultIn(faults', u, m) =>
               /\ sends'[<<u, m>>] <= 1
               /\ AllIdle' =>
                     CountNotifications(notification_collection', u, m) = sends'[<<u, m>>]
       /\ \A t \in Tasks :
            (frame[t].op = "notify_users" /\ pc'[t] = "idle") =>
               \A j \in 1..Len(frame[t].cursor) :
                  LET d == frame[t].cursor[j]
                      m == frame[t].data.message_id
                  IN  (NoFaultIn(faults', d.user_id, m) /\ ~Expired(now, d.trial_end_date)) =>
                         CountNotifications(notification_collection', d.user_id, m) = 1
      ]_vars

\* C1 witness: two runs for message 42 have ended, nothing raised, and user 1
\* got one call and has one record.
C1_Witness ==
    /\ runs[42] >= 2
    /\ AllIdle
    /\ faults = {}
    /\ sends[<<1, 42>>] = 1
    /\ CountNotifications(notification_collection, 1, 42) = 1

\* C2: when notify_users runs for the same message interleave and nothing
\* raises, send_message is called at most once per (user, message) and at
\* most one notifications record of the pair is inserted.
C2_AtMostOnceInterleaved ==
    \A u \in UserIds, m \in MessageIds :
        NoFault(u, m) =>
           /\ sends[<<u, m>>] <= 1
           /\ CountNotifications(notification_collection, u, m) <= 1

\* C3: once a send to a user for a message has raised, a notifications
\* record of the pair exists, and send_message is not called for the pair
\* again.
C3_RecordKeptOnFailedSend ==
    \A u \in UserIds, m \in MessageIds :
        <<"send", u, m>> \in faults =>
           /\ HasNotification(notification_collection, u, m)
           /\ sends[<<u, m>>] <= 1

\* C4: a user created by start at T0 who never pressed a button passes the
\* trial check of notify_users exactly when the check is made before
\* T0 + 3 days.
C4_TrialLastsThreeDays ==
    \A t \in Tasks :
        pc[t] \in {"notify_dedup", "notify_expire"} =>
           LET u == frame[t].cursor[frame[t].i].user_id
           IN  (created[u] # -1 /\ u \notin pressed) =>
                  (pc[t] = "notify_dedup"
                     <=> frame[t].utcnow < created[u] + timedelta(TrialDays))

\* C5: after an on press, the stored trial_end_date parses to the press's
\* utcnow() + 3 days when the services list then has one entry, and to
\* 23:59:59 of the press's day otherwise.
C5_ButtonOnExpiry ==
    \A t \in Tasks :
        (pc[t] = "button_edit" /\ frame[t].status = "on") =>
           LET d == UserDoc(frame[t].user_id)
           IN  ParseTrialEnd(d.trial_end_date) =
                  IF Len(d.services) = 1
                  THEN frame[t].utcnow + timedelta(TrialDays)
                  ELSE ReplaceEndOfDay(frame[t].utcnow)

\* C6: notify_users calls send_message for a user only if the user's stored
\* services list shares a service with those the message's text matches.
C6_OnlyServiceMatched ==
    \A t \in Tasks :
        frame[t].op = "notify_users" =>
           \A u \in frame[t].attempted :
              {UserDoc(u).services[k] : k \in 1..Len(UserDoc(u).services)}
                 \cap MatchedServices(frame[t].data.text) # {}

\* C7: once a user's status is False it stays False, no further
\* status: False update is made for the user (at most one is ever made), and
\* send_message is never called for the user again.
C7_InactiveIsSticky ==
    [][\A u \in UserIds :
          /\ flips'[u] <= 1
          /\ (Registered(u) /\ ~UserDoc(u).status) =>
                /\ Registered(u)' /\ ~UserDoc(u)'.status
                /\ flips'[u] = flips[u]
                /\ \A m \in MessageIds : sends'[<<u, m>>] = sends[<<u, m>>]
      ]_vars

\* C7 witness: a user whose status is False has since enabled a service, so
\* that the stored trial_end_date is in the future again, and a second run
\* has ended without a call of send_message for the user.
C7_Witness ==
    \E u \in UserIds :
        /\ Registered(u)
        /\ ~UserDoc(u).status
        /\ flips[u] = 1
        /\ u \in pressed
        /\ ~Expired(now, UserDoc(u).trial_end_date)
        /\ runs[42] = 2
        /\ sends[<<u, 42>>] = 0
        /\ AllIdle

\* C8: the users collection holds at most one record per user_id.
C8_OneRecordPerUser ==
    \A u \in UserIds :
        Cardinality({i \in 1..Len(user_collection) : user_collection[i].user_id = u}) <= 1

\* C9: no step of a button press with status off changes anything in the
\* users collection but the services list of the pressing user's record.
C9_OffChangesOnlyServices ==
    [][\A t \in Tasks :
          (frame[t].op = "button" /\ frame[t].status = "off" /\ pc'[t] # pc[t]) =>
             /\ Len(user_collection') = Len(user_collection)
             /\ \A i \in 1..Len(user_collection) :
                   IF i = FindUser(user_collection, frame[t].user_id)
                   THEN user_collection'[i] =
                           [user_collection[i] EXCEPT
                               !.services = user_collection'[i].services]
                   ELSE user_collection'[i] = user_collection[i]
      ]_vars

\* C9 witness: an off press has removed one of the user's two services, and
\* the stored trial_end_date is still the one the second on press wrote.
C9_Witness ==
    \E t \in Tasks :
        /\ pc[t] = "button_edit"
        /\ frame[t].status = "off"
        /\ Len(UserDoc(frame[t].user_id).services) = 1
        /\ UserDoc(frame[t].user_id).services[1] # frame[t].service_name
        /\ Len(UserDoc(frame[t].user_id).trial_end_date) = 2

\* C10: a notify_users run in which a send raised ends only when its cursor
\* is exhausted, and every user of the cursor who is then active and whose
\* trial has not ended was sent the message in this run or has a
\* notifications record for it.
C10_FailureIsolated ==
    [][\A t \in Tasks :
          (/\ frame[t].op = "notify_users"
           /\ pc'[t] = "idle"
           /\ frame[t].failed # {} \/ (pc[t] = "notify_send" /\ faults' # faults)) =>
             \A j \in 1..Len(frame[t].cursor) :
                LET d == frame[t].cursor[j]
                    m == frame[t].data.message_id
                IN  (/\ user_collection'[FindUser(user_collection', d.user_id)].status
                     /\ ~Expired(now, d.trial_end_date)) =>
                       \/ d.user_id \in frame[t].attempted
                       \/ sends'[<<d.user_id, m>>] = sends[<<d.user_id, m>>] + 1
                       \/ HasNotification(notification_collection', d.user_id, m)
      ]_vars

\* C10 witness: the send to the first user of the cursor raised and the
\* second user has been sent the message.
C10_Witness ==
    \E t \in Tasks :
        /\ pc[t] = "notify_record"
        /\ frame[t].i = 2
        /\ frame[t].failed = {frame[t].cursor[1].user_id}
        /\ frame[t].attempted = {frame[t].cursor[1].user_id, frame[t].cursor[2].user_id}

NotifyLabels == {"notify_find", "notify_expire", "notify_dedup", "notify_send", "notify_record"}


\* C11: a handler is in notify_users only for a document that collection
\* holds, send_message is called and notifications records are written only
\* for a message_id that collection holds, and the step in which the insert
\* raises ends the handler and changes no collection and no send count.
C11_NoNotifyWithoutStore ==
    [][/\ \A t \in Tasks :
            pc'[t] \in NotifyLabels =>
               \E i \in 1..Len(collection') : collection'[i] = frame'[t].data
       /\ \A u \in UserIds, m \in MessageIds :
            (sends'[<<u, m>>] > 0 \/ HasNotification(notification_collection', u, m)) =>
               m \in {collection'[i].message_id : i \in 1..Len(collection')}
       /\ \A t \in Tasks :
            (pc[t] = "collect_insert" /\ faults' # faults) =>
               /\ pc'[t] = "idle"
               /\ UNCHANGED <<store, sends>>
      ]_vars

\* C11 witness: the insert of message 42 raised with an active user
\* registered, the handler has ended, and no call of send_message and no
\* record was made.
C11_Witness ==
    /\ <<"store", 0, 42>> \in faults
    /\ AllIdle
    /\ collection = <<>>
    /\ notification_collection = <<>>
    /\ Registered(1) /\ UserDoc(1).status /\ ~Expired(now, UserDoc(1).trial_end_date)
    /\ sends[<<1, 42>>] = 0

\* C12: every document that collect_data builds or stores has a text that is
\* not empty and has a keyword in it, and the collect_data call that returns
\* at once (no text, or no keyword) leaves the three collections, the send
\* counts and the handler's position as they were.
C12_UnmatchedIsNoOp ==
    [][/\ \A t \in Tasks :
            (pc'[t] \in NotifyLabels \cup {"collect_insert"}) =>
               /\ frame'[t].data.text # <<>>
               /\ \E k \in keywords : Contains(Lower(frame'[t].data.text), k)
       /\ \A i \in 1..Len(collection') :
            /\ collection'[i].text # <<>>
            /\ \E k \in keywords : Contains(Lower(collection'[i].text), k)
       /\ (calls' = calls + 1 /\ pc' = pc) => UNCHANGED <<store, sends, frame, runs>>
      ]_vars

\* C12 witness: one handler call was made and has returned, nothing raised,
\* and no collection and no part of service_state has changed: the call was
\* a collect_data that returned at once (a start would have inserted a user,
\* a button press would have set service_state).
C12_Witness ==
    /\ calls = 1
    /\ AllIdle
    /\ faults = {}
    /\ user_collection = <<>>
    /\ collection = <<>>
    /\ notification_collection = <<>>
    /\ \A s \in Services : ~service_state[s]

\* C13: a text that holds a keyword of the list, written in any mix of upper
\* and lower case, is kept by collect_data, and a text is kept exactly when
\* its upper-case form is.
C13_CaseInsensitive ==
    \A t \in Tasks :
        pc[t] = "classified" =>
           /\ (\E k \in keywords : Contains(Lower(frame[t].text), Lower(k)))
                 => frame[t].kept
           /\ frame[t].kept = frame[t].kept_upper

\* C14: notify_users skips a user as already notified only if the event,
\* named by its chat and its message_id, was stored before: collection then
\* holds a second document with that chat_name and message_id.
C14_EventsByChatAndId ==
    \A t \in Tasks :
        (/\ pc[t] = "notify_dedup"
         /\ HasNotification(notification_collection,
                            frame[t].cursor[frame[t].i].user_id,
                            frame[t].data.message_id)) =>
           Cardinality({i \in 1..Len(collection) :
                           /\ collection[i].chat_name = frame[t].data.chat_name
                           /\ collection[i].message_id = frame[t].data.message_id}) >= 2

\* C15: no step of a button press changes the keyboard that is generated for
\* a user other than the one who pressed.
C15_KeyboardPerUser ==
    [][\A t \in Tasks :
          (frame[t].op = "button" /\ pc'[t] # pc[t]) =>
             \A a \in UserIds \ {frame[t].user_id} :
                KeyboardFor(a, service_state') = KeyboardFor(a, service_state)
      ]_vars

\* C16: when two on presses of one user for two different services have
\* both written their update, the stored services list holds both services.
C16_NoLostToggle ==
    \A t1, t2 \in Tasks :
        (/\ t1 # t2
         /\ pc[t1] = "button_edit" /\ pc[t2] = "button_edit"
         /\ frame[t1].user_id = frame[t2].user_id
         /\ frame[t1].status = "on" /\ frame[t2].status = "on"
         /\ frame[t1].service_name # frame[t2].service_name) =>
           LET list == UserDoc(frame[t1].user_id).services
           IN  {frame[t1].service_name, frame[t2].service_name}
                  \subseteq {list[k] : k \in 1..Len(list)}

\* C17: no stored services list holds a service twice, and when a press has
\* written its update the list holds the service after an on press and does
\* not hold it after an off press.
C17_ServicesIsASet ==
    /\ \A i \in 1..Len(user_collection) :
          LET list == user_collection[i].services
          IN  \A j, k \in 1..Len(list) : list[j] = list[k] => j = k
    /\ \A t \in Tasks :
          pc[t] = "button_edit" =>
             LET list == UserDoc(frame[t].user_id).services
             IN  (frame[t].status = "on")
                    <=> (frame[t].service_name \in {list[k] : k \in 1..Len(list)})

\* C20: no step of a button press of a user who has no record changes the
\* users collection or service_state.
C20_UnregisteredPressIsNoOp ==
    [][\A t \in Tasks :
          (/\ frame[t].op = "button"
           /\ ~Registered(frame[t].user_id)
           /\ pc'[t] # pc[t]) =>
             /\ user_collection' = user_collection
             /\ service_state' = service_state
      ]_vars

\* C18: for every user, at most one on press has written a trial_end_date of
\* now + 3 days.
C18_FreshTrialOnce == \A u \in UserIds : fresh[u] <= 1

\* The event m has just been stored, its notify_users run is about to read
\* the users, and u has status True and no notifications record for m.
C19_Pending(u, m) ==
    /\ pc[MainTask] = "notify_find"
    /\ frame[MainTask].data.message_id = m
    /\ Registered(u)
    /\ UserDoc(u).status
    /\ ~HasNotification(notification_collection, u, m)

C19_Notified(u, m) ==
    sends[<<u, m>>] >= 1 /\ HasNotification(notification_collection, u, m)

=============================================================================
